---- MODULE Spec2Model ----
(***************************************************************************)
(* Model of raspi_iccmax_FF.py: the paged PMBus register protocol          *)
(* (vrm_write_block, vrm_read_block, scan_read_block) over the raw I2C     *)
(* transport (write_block, read_block), and the three ICC_MAX modification *)
(* procedures built on it.                                                 *)
(*                                                                         *)
(* Bytes are written in decimal; the hexadecimal value of the source is    *)
(* given in the comment next to each.                                      *)
(***************************************************************************)
EXTENDS Integers, Sequences, FiniteSets, TLC

\* ---------------------------------------------------------------- bounds
\* Upper bound on the number of paged operations of one run in which a
\* transport transaction fails (within such an operation any transaction may
\* fail, up to the exhaustion of its retry budget).
MaxFaultyOps == 1

\* ------------------------------------------------------------- constants
RETRY_RW == 4
RETRY_SCAN == 2

VARIABLES
    mode,      \* what is being run: a modification procedure or one protocol call
    addr7,     \* the 7-bit address argument
    dev,       \* register contents of the device at addr7
    arg,       \* arguments of a direct protocol call
    pc,        \* position in the running procedure
    st,        \* position in the running paged operation: idle, loop, pay, ret
    tries,     \* the local 'tries' of the running paged operation
    rc,        \* return code of the last paged operation
    data,      \* bytes returned by the last paged read
    trace,     \* every transport call (and sleep) so far, in order
    nfail,     \* number of transactions a present device has failed so far
    nfaulty,   \* number of paged operations that have seen a failed transaction
    opfault,   \* the running paged operation has seen a failed transaction
    failed,    \* stages whose paged operation returned -1
    found,     \* the "found: starting modd" line was printed
    outcome,   \* how the run ended: none, Skipped, Success, Error, Raised, Ok, Failed
    ret,       \* <<the returned value>>, empty before the return and after a raise
    bus,       \* the devices on the bus: address -> register contents
    argv,      \* the command line: the command and its address arguments
    a2,        \* <<second address>> of a family command / <<end address>> of a scan
    calls,     \* the procedure calls main has completed: <<address, outcome>>
    report     \* the matches the scanner has printed: <<address, family>>

\* The variables only main and the scanner change.
cli == <<bus, argv, a2, calls, report>>

vars == <<mode, addr7, dev, arg, pc, st, tries, rc, data, trace, nfail,
          nfaulty, opfault, failed, found, outcome, ret, bus, argv, a2, calls,
          report>>

Procedures == {"PXE1610C", "MP2955A", "TPS53679"}
Protocols  == {"vrm_write_block", "vrm_read_block", "scan_read_block"}

\* ------------------------------------------------------- paged operations
RdOp(fn, page, reg, n) == [fn |-> fn, page |-> page, bytes |-> <<reg>>, n |-> n]
WrOp(fn, page, payload) == [fn |-> fn, page |-> page, bytes |-> payload, n |-> 0]

pxe1610_page_attempts_3F(p) ==
    CASE p = "id_fd"   -> 0
      [] p = "id_1a"   -> 79
      [] p = "id_32"   -> 79
      [] p = "smb_pw"  -> 63
      [] p = "rd_icc"  -> 32
      [] p = "rd_att"  -> 63
      [] p = "wr_icc"  -> 32
      [] p = "nvm_set" -> 63
      [] p = "upload"  -> 63
      [] p = "nvm_clr" -> 63
      [] p = "rd_att2" -> 80
      [] OTHER         -> 0
\* The page argument of each paged operation of pxe1610_set_icc_max.
pxe1610_page(p) ==
    CASE p = "id_fd"   -> 0                                  \* Page00
      [] p = "id_1a"   -> 79                                 \* Page4F
      [] p = "id_32"   -> 79                                 \* Page4F
      [] p = "smb_pw"  -> 63                                 \* Page3F
      [] p = "rd_icc"  -> 32                                 \* Page20
      [] p = "rd_att"  -> 80                                 \* Page50
      [] p = "wr_icc"  -> 32                                 \* Page20
      [] p = "nvm_set" -> 63                                 \* Page3F
      [] p = "upload"  -> 63                                 \* Page3F
      [] p = "nvm_clr" -> 63                                 \* Page3F
      [] p = "rd_att2" -> 80                                 \* Page50
      [] OTHER         -> 0

\* The paged operation each stage of pxe1610_set_icc_max performs.
pxe1610_op(p) ==
    CASE p = "id_fd"   -> RdOp("vrm_read_block", pxe1610_page(p), 253, 1)             \* FD
      [] p = "id_1a"   -> RdOp("vrm_read_block", pxe1610_page(p), 26, 1)              \* 1A
      [] p = "id_32"   -> RdOp("vrm_read_block", pxe1610_page(p), 50, 2)              \* 32
      [] p = "smb_pw"  -> WrOp("vrm_write_block", pxe1610_page(p), <<39, 124, 179>>)  \* 27 7C B3
      [] p = "rd_icc"  -> RdOp("vrm_read_block", pxe1610_page(p), 115, 2)             \* 73
      [] p = "rd_att"  -> RdOp("vrm_read_block", pxe1610_page(p), 130, 2)             \* 82
      [] p = "wr_icc"  -> WrOp("vrm_write_block", pxe1610_page(p), <<115, 255, 0>>)   \* 73 FF 00
      [] p = "nvm_set" -> WrOp("vrm_write_block", pxe1610_page(p), <<41, 215, 239>>)  \* 29 D7 EF
      [] p = "upload"  -> WrOp("vrm_write_block", pxe1610_page(p), <<52>>)            \* 34
      [] p = "nvm_clr" -> WrOp("vrm_write_block", pxe1610_page(p), <<41, 0, 0>>)      \* 29 00 00
      [] p = "rd_att2" -> RdOp("vrm_read_block", pxe1610_page(p), 130, 2)             \* 82
      [] OTHER         -> WrOp("none", 0, <<>>)

mp2955a_op_nopage(p) ==
    CASE p = "id_bf"  -> RdOp("vrm_read_block", -1, 191, 2)
      [] p = "rd_ef"  -> RdOp("vrm_read_block", -1, 239, 1)
      [] p = "wr_ef"  -> WrOp("vrm_write_block", -1, <<239, 255>>)
      [] p = "rb_ef"  -> RdOp("vrm_read_block", -1, 239, 1)
      [] p = "store"  -> WrOp("vrm_write_block", -1, <<21>>)
      [] OTHER        -> WrOp("none", 0, <<>>)
\* The paged operation each stage of mp2955a_set_icc_max performs.
mp2955a_op(p) ==
    CASE p = "id_bf"  -> RdOp("vrm_read_block", 0, 191, 2)               \* Page00 BF
      [] p = "rd_ef"  -> RdOp("vrm_read_block", 0, 239, 1)               \* Page00 EF
      [] p = "wr_ef"  -> WrOp("vrm_write_block", 0, <<239, 255>>)        \* Page00 EF FF
      [] p = "rb_ef"  -> RdOp("vrm_read_block", 0, 239, 1)               \* Page00 EF
      [] p = "store"  -> WrOp("vrm_write_block", 0, <<21>>)              \* Page00 15
      [] OTHER        -> WrOp("none", 0, <<>>)

\* The paged operation each stage of tps53679_set_icc_max performs.
tps53679_op(p) ==
    CASE p = "id_ad"  -> RdOp("vrm_read_block", 0, 173, 2)               \* Page00 AD
      [] p = "rd_da"  -> RdOp("vrm_read_block", 0, 218, 2)               \* Page00 DA
      [] p = "wr_da"  -> WrOp("vrm_write_block", 0, <<218, 255, 0>>)     \* Page00 DA FF 00
      [] p = "rb_da"  -> RdOp("vrm_read_block", 0, 218, 2)               \* Page00 DA
      [] p = "store"  -> WrOp("vrm_write_block", 0, <<17>>)              \* Page00 11
      [] OTHER        -> WrOp("none", 0, <<>>)

scan_op_deep_retry(p) ==
    CASE p = "probe"  -> RdOp("read_block", -1, 0, 1)
      [] p = "s_ad5"  -> RdOp("scan_read_block", 0, 173, 5)
      [] p = "s_ad2"  -> RdOp("scan_read_block", 0, 173, 2)
      [] p = "s_bf"   -> RdOp("vrm_read_block", 0, 191, 2)
      [] p = "s_fd"   -> RdOp("scan_read_block", 0, 253, 1)
      [] p = "s_1a"   -> RdOp("scan_read_block", 79, 26, 1)
      [] p = "s_32"   -> RdOp("scan_read_block", 79, 50, 2)
      [] p = "s_82"   -> RdOp("scan_read_block", 80, 130, 2)
      [] p = "s_73"   -> RdOp("scan_read_block", 32, 115, 2)
      [] OTHER        -> WrOp("none", 0, <<>>)
\* The read each stage of scan_pmbus performs: the presence probe is a bare
\* read_block, the classification reads are scan_read_block calls.
scan_op(p) ==
    CASE p = "probe"  -> RdOp("read_block", -1, 0, 1)                    \* reg 00, 1 byte
      [] p = "s_ad5"  -> RdOp("scan_read_block", 0, 173, 5)              \* Page00 AD, 5
      [] p = "s_ad2"  -> RdOp("scan_read_block", 0, 173, 2)              \* Page00 AD, 2
      [] p = "s_bf"   -> RdOp("scan_read_block", 0, 191, 2)              \* Page00 BF
      [] p = "s_fd"   -> RdOp("scan_read_block", 0, 253, 1)              \* Page00 FD
      [] p = "s_1a"   -> RdOp("scan_read_block", 79, 26, 1)              \* Page4F 1A
      [] p = "s_32"   -> RdOp("scan_read_block", 79, 50, 2)              \* Page4F 32
      [] p = "s_82"   -> RdOp("scan_read_block", 80, 130, 2)             \* Page50 82
      [] p = "s_73"   -> RdOp("scan_read_block", 32, 115, 2)             \* Page20 73
      [] OTHER        -> WrOp("none", 0, <<>>)

\* The paged operation in progress.
CurOp ==
    CASE mode = "PXE1610C" -> pxe1610_op(pc)
      [] mode = "MP2955A"  -> mp2955a_op(pc)
      [] mode = "TPS53679" -> tps53679_op(pc)
      [] mode = "scan"     -> scan_op(pc)
      [] OTHER             -> arg

\* ------------------------------------------------------------- transport
\* What the device answers to a write-then-read of register reg.
\* It is always n bytes: the register's bytes first, then zeroes.
DevRead(page, reg, n) ==
    LET k == <<page, reg>> IN
    [i \in 1..n |-> IF k \in DOMAIN dev /\ i <= Len(dev[k]) THEN dev[k][i] ELSE 0]

\* One event of the transport trace.
\* Besides what went over the bus it records the page argument of the calling
\* paged operation (pg) and the number of the attempt it belongs to (att).
Event(op, bytes, n, ok, resp) ==
    [op |-> op, addr |-> addr7, pg |-> CurOp.page,
     att |-> IF st = "loop" THEN tries + 1 ELSE tries,
     bytes |-> bytes, n |-> n, ok |-> ok, resp |-> resp]

\* The register map that stands for "no device at this address".
NoDevice == (<<-1, -1>> :> <<>>)

\* A device answers at addr7.
Present == <<-1, -1>> \notin DOMAIN dev

\* The bus transaction raises (ok = FALSE) or not. With no device at the
\* address it always raises; the failures a present device causes are counted.
Transact(ok) ==
    /\ IF Present THEN ok \/ opfault \/ nfaulty < MaxFaultyOps ELSE ~ok
    /\ nfail' = IF ok \/ ~Present THEN nfail ELSE nfail + 1
    /\ opfault' = (opfault \/ (~ok /\ Present))
    /\ nfaulty' = IF ~ok /\ ~opfault /\ Present THEN nfaulty + 1 ELSE nfaulty

\* write_block: one I2C write transaction; it succeeds (0) or fails (-1).
write_block(bytes, ok) ==
    /\ Transact(ok)
    /\ trace' = Append(trace, Event("write", bytes, 0, ok, <<>>))

\* read_block: one write-then-read transaction of n bytes of register reg.
read_block(reg, n, ok) ==
    /\ Transact(ok)
    /\ trace' = Append(trace, Event("read", <<reg>>, n, ok,
                                    IF ok THEN DevRead(CurOp.page, reg, n) ELSE <<>>))

\* ------------------------------------------------------ the retry loop
while_tries_le(t, budget) == t <= budget
\* 'while tries < RETRY'
while_tries(t, budget) == t < budget

needs_page_sentinel_too(page) == page >= -1
\* 'if page >= 0: rc = write_block([0x00, page])'
needs_page(page) == page >= 0

next_after_page_all(ok) == "pay"
\* 'if rc == 0:' after the page select: the payload is only issued when the
\* page select succeeded, otherwise the loop starts its next attempt.
next_after_page(ok) == IF ok THEN "pay" ELSE "loop"

\* One step of the loop shared by the three paged operations.
PagedStep(budget) ==
    \/ /\ st = "loop" /\ while_tries(tries, budget) /\ needs_page(CurOp.page)
       /\ \E ok \in BOOLEAN :
             /\ write_block(<<0, CurOp.page>>, ok)
             /\ st' = next_after_page(ok)
       /\ tries' = tries + 1
       /\ UNCHANGED <<rc, data>>
    \/ /\ st = "loop" /\ while_tries(tries, budget) /\ ~needs_page(CurOp.page)
       /\ tries' = tries + 1
       /\ st' = "pay"
       /\ UNCHANGED <<rc, data, trace, nfail, nfaulty, opfault>>
    \/ /\ st = "pay"
       /\ \E ok \in BOOLEAN :
             /\ IF CurOp.n = 0
                  THEN write_block(CurOp.bytes, ok)
                  ELSE read_block(CurOp.bytes[1], CurOp.n, ok)
             /\ IF ok
                  THEN /\ st' = "ret"
                       /\ rc' = 0
                       /\ data' = IF CurOp.n = 0 THEN <<>>
                                  ELSE DevRead(CurOp.page, CurOp.bytes[1], CurOp.n)
                  ELSE /\ st' = "loop"
                       /\ UNCHANGED <<rc, data>>
       /\ UNCHANGED tries
    \/ /\ st = "loop" /\ ~while_tries(tries, budget)
       /\ st' = "ret"
       /\ rc' = -1
       /\ data' = <<>>
       /\ UNCHANGED <<tries, trace, nfail, nfaulty, opfault>>

vrm_write_block ==
    /\ CurOp.fn = "vrm_write_block"
    /\ PagedStep(RETRY_RW)
    /\ UNCHANGED <<cli, mode, addr7, dev, arg, pc, failed, found, outcome, ret>>

vrm_read_block ==
    /\ CurOp.fn = "vrm_read_block"
    /\ PagedStep(RETRY_RW)
    /\ UNCHANGED <<cli, mode, addr7, dev, arg, pc, failed, found, outcome, ret>>

scan_read_block ==
    /\ CurOp.fn = "scan_read_block"
    /\ PagedStep(RETRY_SCAN)
    /\ UNCHANGED <<cli, mode, addr7, dev, arg, pc, failed, found, outcome, ret>>


\* --------------------------------------------------- procedure plumbing
\* Call the paged operation of stage p.
Begin(p) ==
    /\ pc' = p
    /\ st' = "loop"
    /\ tries' = 0
    /\ opfault' = FALSE
    /\ UNCHANGED <<outcome, ret>>

\* 'return r' after the message o was printed.
Return(o, r) ==
    /\ pc' = "done"
    /\ st' = "idle"
    /\ outcome' = o
    /\ ret' = <<r>>
    /\ UNCHANGED <<tries, opfault>>

\* An exception leaves the procedure (and main) without a return value.
Raise ==
    /\ pc' = "done"
    /\ st' = "idle"
    /\ outcome' = "Raised"
    /\ ret' = <<>>
    /\ UNCHANGED <<tries, opfault>>

sleep_skipped == trace' = trace
\* time.sleep(1)
sleep == trace' = Append(trace, [op |-> "sleep", addr |-> addr7, pg |-> -1, att |-> 0,
                                 bytes |-> <<>>, n |-> 0, ok |-> TRUE, resp |-> <<>>])

\* The stage whose paged operation just returned -1 is recorded.
NoteFailure == failed' = IF st = "ret" /\ rc # 0 THEN failed \cup {pc} ELSE failed

\* ------------------------------------------------ pxe1610_set_icc_max
upload_fatal_checked(r) == r # 0
\* The rc of the upload trigger is printed; no 'if rc != 0: return -1' follows.
upload_fatal(r) == FALSE

pxe_fd_ok(r, b) == r = 0 /\ b[1] = 179                 \* b00_fd[0] == 0xB3
pxe_1a_ok(r, b) == r = 0 /\ b[1] = 0                   \* b4f_1a[0] == 0x00
pxe_32_ok(r, b) == r = 0 /\ b[1] = 21 /\ b[2] = 4      \* b4f_32 == 0x15 0x04

pxe_icc_at_max_byte1(icc) == icc[2] = 255
pxe_icc_at_max(icc) == icc[1] = 255                    \* icc[0] == 0xFF

pxe1610_set_icc_max ==
    /\ mode = "PXE1610C"
    /\ \/ /\ st = "ret" /\ pc = "id_fd"
          \* the format of the first print raises ValueError when rc != 0
          /\ IF rc # 0 THEN Raise
             ELSE IF pxe_fd_ok(rc, data) THEN Begin("id_1a")
             ELSE Return("Error", -1)
          /\ UNCHANGED <<found, trace>>
       \/ /\ st = "ret" /\ pc = "id_1a"
          /\ IF pxe_1a_ok(rc, data) THEN Begin("id_32") ELSE Return("Error", -1)
          /\ UNCHANGED <<found, trace>>
       \/ /\ st = "ret" /\ pc = "id_32"
          /\ IF pxe_32_ok(rc, data)
               THEN found' = TRUE /\ Begin("smb_pw")
               ELSE found' = found /\ Return("Error", -1)
          /\ UNCHANGED trace
       \/ /\ st = "ret" /\ pc = "smb_pw"
          /\ IF rc # 0 THEN Return("Error", -1) ELSE Begin("rd_icc")
          /\ UNCHANGED <<found, trace>>
       \/ /\ st = "ret" /\ pc = "rd_icc"
          /\ IF rc = 0
               THEN IF pxe_icc_at_max(data) THEN Return("Skipped", 0)
                    ELSE Begin("rd_att")
               ELSE Return("Error", -1)
          /\ UNCHANGED <<found, trace>>
       \/ /\ st = "ret" /\ pc = "rd_att"
          /\ Begin("wr_icc")
          /\ UNCHANGED <<found, trace>>
       \/ /\ st = "ret" /\ pc = "wr_icc"
          /\ IF rc # 0 THEN Return("Error", -1) ELSE Begin("nvm_set")
          /\ UNCHANGED <<found, trace>>
       \/ /\ st = "ret" /\ pc = "nvm_set"
          /\ IF rc # 0 THEN Return("Error", -1) ELSE Begin("upload")
          /\ UNCHANGED <<found, trace>>
       \/ /\ st = "ret" /\ pc = "upload"
          /\ IF upload_fatal(rc)
               THEN Return("Error", -1)
               ELSE pc' = "sleep" /\ st' = "idle" /\ UNCHANGED <<tries, opfault, outcome, ret>>
          /\ UNCHANGED <<found, trace>>
       \/ /\ st = "idle" /\ pc = "sleep"
          /\ sleep
          /\ Begin("nvm_clr")
          /\ UNCHANGED found
       \/ /\ st = "ret" /\ pc = "nvm_clr"
          /\ IF rc # 0 THEN Return("Error", -1) ELSE Begin("rd_att2")
          /\ UNCHANGED <<found, trace>>
       \/ /\ st = "ret" /\ pc = "rd_att2"
          /\ IF rc = 0 THEN Return("Success", 0) ELSE Return("Error", -1)
          /\ UNCHANGED <<found, trace>>
    /\ NoteFailure
    /\ UNCHANGED <<cli, mode, addr7, dev, arg, rc, data, nfail, nfaulty>>

\* ------------------------------------------------ mp2955a_set_icc_max
mp_sig_swapped(bf) == bf[1] = 37 /\ bf[2] = 85
mp_sig(bf) == bf[1] = 85 /\ bf[2] = 37                 \* bf[0]==0x55, bf[1]==0x25

mp_icc_at_max(v) == v[1] = 255                         \* v[0] == 0xFF

mp2955a_set_icc_max ==
    /\ mode = "MP2955A"
    /\ \/ /\ st = "ret" /\ pc = "id_bf"
          /\ IF rc # 0 THEN found' = found /\ Return("Error", -1)
             ELSE IF mp_sig(data) THEN found' = TRUE /\ Begin("rd_ef")
             ELSE found' = found /\ Return("Error", -1)
          /\ UNCHANGED trace
       \/ /\ st = "ret" /\ pc = "rd_ef"
          /\ IF rc # 0 THEN Return("Error", -1)
             ELSE IF mp_icc_at_max(data) THEN Return("Skipped", 0)
             ELSE Begin("wr_ef")
          /\ UNCHANGED <<found, trace>>
       \/ /\ st = "ret" /\ pc = "wr_ef"
          /\ IF rc # 0 THEN Return("Error", -1) ELSE Begin("rb_ef")
          /\ UNCHANGED <<found, trace>>
       \/ /\ st = "ret" /\ pc = "rb_ef"
          \* rc of the read-back is printed and not tested
          /\ Begin("store")
          /\ UNCHANGED <<found, trace>>
       \/ /\ st = "ret" /\ pc = "store"
          /\ pc' = "sleep" /\ st' = "idle"
          /\ UNCHANGED <<found, trace, tries, opfault, outcome, ret>>
       \/ /\ st = "idle" /\ pc = "sleep"
          /\ sleep
          /\ IF rc = 0 THEN Return("Success", 0) ELSE Return("Error", -1)
          /\ UNCHANGED found
    /\ NoteFailure
    /\ UNCHANGED <<cli, mode, addr7, dev, arg, rc, data, nfail, nfaulty>>

\* ----------------------------------------------- tps53679_set_icc_max
tps_sig_79_only(ad) == ad[1] = 1 /\ ad[2] = 121
tps_sig(ad) == ad[1] = 1 /\ ad[2] \in {121, 120}       \* ad[0]==0x01, ad[1] in (0x79,0x78)

tps_icc_at_max(da) == da[1] = 255                      \* da[0] == 0xFF

tps53679_set_icc_max ==
    /\ mode = "TPS53679"
    /\ \/ /\ st = "ret" /\ pc = "id_ad"
          /\ IF rc # 0 THEN found' = found /\ Return("Error", -1)
             ELSE IF tps_sig(data) THEN found' = TRUE /\ Begin("rd_da")
             ELSE found' = found /\ Return("Error", -1)
          /\ UNCHANGED trace
       \/ /\ st = "ret" /\ pc = "rd_da"
          /\ IF rc # 0 THEN Return("Error", -1)
             ELSE IF tps_icc_at_max(data) THEN Return("Skipped", 0)
             ELSE Begin("wr_da")
          /\ UNCHANGED <<found, trace>>
       \/ /\ st = "ret" /\ pc = "wr_da"
          /\ IF rc # 0 THEN Return("Error", -1) ELSE Begin("rb_da")
          /\ UNCHANGED <<found, trace>>
       \/ /\ st = "ret" /\ pc = "rb_da"
          \* rc of the read-back is printed and not tested
          /\ Begin("store")
          /\ UNCHANGED <<found, trace>>
       \/ /\ st = "ret" /\ pc = "store"
          /\ pc' = "sleep" /\ st' = "idle"
          /\ UNCHANGED <<found, trace, tries, opfault, outcome, ret>>
       \/ /\ st = "idle" /\ pc = "sleep"
          /\ sleep
          /\ IF rc = 0 THEN Return("Success", 0) ELSE Return("Error", -1)
          /\ UNCHANGED found
    /\ NoteFailure
    /\ UNCHANGED <<cli, mode, addr7, dev, arg, rc, data, nfail, nfaulty>>

\* ------------------------------------------------------------ scan_pmbus
\* The device at address a, if any.
DevAt(a) == IF a \in DOMAIN bus THEN bus[a] ELSE NoDevice

\* ad5[4]==0x49, ad5[3]==0xD2, ad5[2]==0x23, ad5[1]==0x00 of a 5-byte read
scan_isl(r, ad5) ==
    r = 0 /\ Len(ad5) = 5 /\ ad5[5] = 73 /\ ad5[4] = 210 /\ ad5[3] = 35 /\ ad5[2] = 0

scan_tps79(r, ad2) == r = 0 /\ ad2[1] = 1 /\ ad2[2] = 121      \* 0x01 0x79
scan_tps78_any_byte0(r, ad2) == r = 0 /\ ad2[2] = 120
scan_tps78(r, ad2) == r = 0 /\ ad2[1] = 1 /\ ad2[2] = 120      \* 0x01 0x78
scan_mp(r, bf) == r = 0 /\ bf[1] = 85 /\ bf[2] = 37            \* 0x55 0x25
scan_fd(r, fd) == r = 0 /\ fd[1] = 179                         \* 0xB3
scan_1a(r, ia) == r = 0 /\ ia[1] = 0                           \* 0x00
scan_32(r, x32) == r = 0 /\ x32[1] = 21 /\ x32[2] = 4          \* 0x15 0x04

while_a_lt(a, e) == a < e
\* 'while a <= end_addr'
while_a(a, e) == a <= e

\* The loop test with a = x: probe x, or leave the loop and return 0.
ScanAt(x) ==
    /\ addr7' = x
    /\ dev' = DevAt(x)
    /\ st' = "idle"
    /\ tries' = 0
    /\ opfault' = FALSE
    /\ IF while_a(x, arg.end_addr)
         THEN pc' = "probe" /\ UNCHANGED <<outcome, ret>>
         ELSE pc' = "done" /\ outcome' = "Scanned" /\ ret' = <<0>>

\* print the match, 'a += 1; continue'
ScanFound(family) ==
    /\ report' = Append(report, <<addr7, family>>)
    /\ ScanAt(addr7 + 1)

\* The next classification read of the same address.
ScanRead(p) == Begin(p) /\ UNCHANGED <<addr7, dev>>

scan_pmbus ==
    /\ mode = "scan"
    /\ \/ /\ pc = "probe" /\ st = "idle"
          \* the presence probe: one read_block, no page, no retry
          /\ \E ok \in BOOLEAN :
                /\ read_block(0, 1, ok)
                /\ rc' = IF ok THEN 0 ELSE -1
                /\ data' = IF ok THEN DevRead(-1, 0, 1) ELSE <<>>
          /\ st' = "ret"
          /\ UNCHANGED <<addr7, dev, pc, tries, outcome, ret, report>>
       \/ /\ pc = "probe" /\ st = "ret"
          /\ IF rc = 0 THEN ScanRead("s_ad5") ELSE ScanAt(addr7 + 1)
          /\ UNCHANGED <<report, rc, data, trace, nfail, nfaulty>>
       \/ /\ pc = "s_ad5" /\ st = "ret"
          /\ IF scan_isl(rc, data) THEN ScanFound("ISL69127")
             ELSE ScanRead("s_ad2") /\ UNCHANGED report
          /\ UNCHANGED <<rc, data, trace, nfail, nfaulty>>
       \/ /\ pc = "s_ad2" /\ st = "ret"
          /\ IF scan_tps79(rc, data) THEN ScanFound("TPS53679")
             ELSE IF scan_tps78(rc, data) THEN ScanFound("TPS53678")
             ELSE ScanRead("s_bf") /\ UNCHANGED report
          /\ UNCHANGED <<rc, data, trace, nfail, nfaulty>>
       \/ /\ pc = "s_bf" /\ st = "ret"
          /\ IF scan_mp(rc, data) THEN ScanFound("MP2955A")
             ELSE ScanRead("s_fd") /\ UNCHANGED report
          /\ UNCHANGED <<rc, data, trace, nfail, nfaulty>>
       \/ /\ pc = "s_fd" /\ st = "ret"
          /\ IF scan_fd(rc, data) THEN ScanRead("s_1a") ELSE ScanAt(addr7 + 1)
          /\ UNCHANGED <<report, rc, data, trace, nfail, nfaulty>>
       \/ /\ pc = "s_1a" /\ st = "ret"
          /\ IF scan_1a(rc, data)
               THEN /\ report' = Append(report, <<addr7, "Primarion">>)
                    /\ ScanRead("s_32")
               ELSE ScanAt(addr7 + 1) /\ UNCHANGED report
          /\ UNCHANGED <<rc, data, trace, nfail, nfaulty>>
       \/ /\ pc = "s_32" /\ st = "ret"
          /\ IF scan_32(rc, data)
               THEN /\ report' = Append(report, <<addr7, "PXE1610C">>)
                    /\ ScanRead("s_82")
               ELSE ScanAt(addr7 + 1) /\ UNCHANGED report
          /\ UNCHANGED <<rc, data, trace, nfail, nfaulty>>
       \/ /\ pc = "s_82" /\ st = "ret"
          \* remaining attempts are printed when the read succeeded
          /\ ScanRead("s_73")
          /\ UNCHANGED <<report, rc, data, trace, nfail, nfaulty>>
       \/ /\ pc = "s_73" /\ st = "ret"
          /\ ScanAt(addr7 + 1)
          /\ UNCHANGED <<report, rc, data, trace, nfail, nfaulty>>
    /\ UNCHANGED <<mode, arg, failed, found, bus, argv, a2, calls>>

\* ------------------------------------------------------------------ main
\* The family command calls the procedure of the family on the address.
main ==
    /\ pc = "main" /\ st = "idle"
    /\ \/ mode = "PXE1610C" /\ Begin("id_fd")
       \/ mode = "MP2955A"  /\ Begin("id_bf")
       \/ mode = "TPS53679" /\ Begin("id_ad")
    /\ UNCHANGED <<cli, mode, addr7, dev, arg, rc, data, trace, nfail, nfaulty, failed, found>>

\* A direct call of one paged operation returns to its caller.
protocol_return ==
    /\ mode \in Protocols
    /\ pc = "call" /\ st = "ret"
    /\ Return(IF rc = 0 THEN "Ok" ELSE "Failed", rc)
    /\ NoteFailure
    /\ UNCHANGED <<cli, mode, addr7, dev, arg, rc, data, trace, nfail, nfaulty, found>>

\* ------------------------------------------------------------------ Init
Addrs == {88}                                           \* 0x58

PxeDevs ==
    { (<<0, 253>> :> fd) @@ (<<79, 26>> :> r1a) @@ (<<79, 50>> :> r32)
        @@ (<<32, 115>> :> icc) @@ (<<80, 130>> :> <<192, 1>>) :
      fd \in {<<179>>, <<0>>}, r1a \in {<<0>>, <<1>>},
      r32 \in {<<21, 4>>, <<21, 0>>, <<4, 21>>},
      icc \in {<<255, 0>>, <<0, 255>>} }

MpDevs ==
    { (<<0, 191>> :> bf) @@ (<<0, 239>> :> ef) :
      bf \in {<<85, 37>>, <<37, 85>>, <<85, 0>>}, ef \in {<<255>>, <<100>>} }

TpsDevs ==
    { (<<0, 173>> :> ad) @@ (<<0, 218>> :> da) :
      ad \in {<<1, 121>>, <<1, 120>>, <<121, 1>>, <<1, 0>>, <<0, 121>>},
      da \in {<<255, 0>>, <<0, 255>>} }

CallDevs == { (<<79, 26>> :> <<7>>) }

\* Addresses a direct call is made with: 0x00, 0x58, 0x7F.
CallAddrs == {0, 88, 127}

\* Pages a direct call is made with: the no-page sentinel and a real page.
CallPages == {-1, 79}

CallArgs(m) ==
    IF m = "vrm_write_block"
      THEN { WrOp(m, p, <<52>>) : p \in CallPages }
      ELSE { RdOp(m, p, 26, 1) : p \in CallPages }

Init ==
    /\ mode \in Procedures \cup Protocols
    /\ addr7 \in (IF mode \in Protocols THEN CallAddrs ELSE Addrs)
    /\ dev \in (CASE mode = "PXE1610C" -> PxeDevs
                  [] mode = "MP2955A"  -> MpDevs
                  [] mode = "TPS53679" -> TpsDevs
                  [] OTHER             -> CallDevs)
    /\ arg \in (IF mode \in Protocols THEN CallArgs(mode) ELSE {WrOp("none", 0, <<>>)})
    /\ pc = IF mode \in Procedures THEN "main" ELSE "call"
    /\ st = IF mode \in Procedures THEN "idle" ELSE "loop"
    /\ tries = 0
    /\ rc = 0
    /\ data = <<>>
    /\ trace = <<>>
    /\ nfail = 0
    /\ nfaulty = 0
    /\ opfault = FALSE
    /\ failed = {}
    /\ found = FALSE
    /\ outcome = "none"
    /\ ret = <<>>
    /\ bus = (addr7 :> dev)
    /\ argv = <<>>
    /\ a2 = <<>>
    /\ calls = <<>>
    /\ report = <<>>

Next ==
    \/ main
    \/ vrm_write_block
    \/ vrm_read_block
    \/ scan_read_block
    \/ pxe1610_set_icc_max
    \/ mp2955a_set_icc_max
    \/ tps53679_set_icc_max
    \/ protocol_return

Spec == Init /\ [][Next]_vars

\* ------------------------------------------------- scanning a bus range
\* Register contents of a device: AD, BF, FD, 1A, 32; the remaining-attempts
\* counter and ICC_MAX (already 0xFF) are the same for all.
Regs(ad, bf, fd, r1a, r32) ==
    (<<0, 173>> :> ad) @@ (<<0, 191>> :> bf) @@ (<<0, 253>> :> fd)
      @@ (<<79, 26>> :> r1a) @@ (<<79, 50>> :> r32)
      @@ (<<80, 130>> :> <<192, 1>>) @@ (<<32, 115>> :> <<255, 0>>)
      @@ (<<0, 239>> :> <<255>>) @@ (<<0, 218>> :> <<255, 0>>)

ScanDevs ==
    { Regs(ad, bf, fd, <<0>>, r32) :
        ad \in {<<1, 0, 35, 210, 73>>, <<1, 0, 35, 210, 0>>, <<1, 121>>, <<1, 120>>,
                <<0, 120>>, <<0, 0>>},
        bf \in {<<85, 37>>, <<0, 0>>},
        fd \in {<<179>>, <<0>>},
        r32 \in {<<21, 4>>, <<21, 0>>} }
      \cup { Regs(<<0, 0>>, <<0, 0>>, <<179>>, <<1>>, <<21, 4>>) }

\* The scans: a start address, an end address and the devices on the bus.
ScanCase(s, e, b) == [start_addr |-> s, end_addr |-> e, devices |-> b]

ScanCases ==
    { ScanCase(16, 16, (16 :> d)) : d \in ScanDevs }
      \cup { ScanCase(16, 15, <<>>), ScanCase(16, 19, <<>>), ScanCase(127, 127, <<>>),
             ScanCase(16, 18, (17 :> Regs(<<0, 0>>, <<85, 37>>, <<0>>, <<0>>, <<0, 0>>))
                                @@ (18 :> Regs(<<0, 0>>, <<0, 0>>, <<179>>, <<0>>, <<21, 4>>))),
             ScanCase(16, 17, (16 :> Regs(<<1, 120>>, <<85, 37>>, <<179>>, <<0>>, <<21, 4>>))) }

\* scan_pmbus(bus, start_addr, end_addr) has been called.
ScanCalled(c) ==
        /\ mode = "scan"
        /\ bus = c.devices
        /\ arg = [fn |-> "scan_pmbus", start_addr |-> c.start_addr, end_addr |-> c.end_addr]
        /\ addr7 = c.start_addr
        /\ dev = IF c.start_addr \in DOMAIN c.devices THEN c.devices[c.start_addr]
                  ELSE NoDevice
        /\ pc = IF while_a(c.start_addr, c.end_addr) THEN "probe" ELSE "done"
        /\ outcome = IF while_a(c.start_addr, c.end_addr) THEN "none" ELSE "Scanned"
        /\ ret = IF while_a(c.start_addr, c.end_addr) THEN <<>> ELSE <<0>>
        /\ st = "idle"
        /\ tries = 0
        /\ rc = 0
        /\ data = <<>>
        /\ trace = <<>>
        /\ nfail = 0
        /\ nfaulty = 0
        /\ opfault = FALSE
        /\ failed = {}
        /\ found = FALSE
        /\ argv = <<>>
        /\ a2 = <<>>
        /\ calls = <<>>
        /\ report = <<>>

InitScan == \E c \in ScanCases : ScanCalled(c)

NextScan ==
    \/ scan_pmbus
    \/ scan_read_block

SpecScan == InitScan /\ [][NextScan]_vars

\* The scanner is a sequential loop: it always takes its next step.
SpecScanLive == SpecScan /\ WF_vars(NextScan)

\* ------------------------------- a family command after a scan reported it
\* The command that runs the procedure of a reported family.
FamilyProcedure(f) == IF f = "TPS53678" THEN "TPS53679" ELSE f

\* After the scan of one address reported family f there, the tool is run
\* again with the command of f and that address; the device is unchanged.
then_modify ==
    /\ mode = "scan" /\ pc = "done"
    /\ report # <<>>
    /\ LET a == report[Len(report)][1]
           f == report[Len(report)][2]
       IN  /\ f \in {"PXE1610C", "MP2955A", "TPS53679", "TPS53678"}
           /\ mode' = FamilyProcedure(f)
           /\ addr7' = a
           /\ dev' = DevAt(a)
           /\ calls' = Append(calls, <<a, f>>)
    /\ pc' = "main"
    /\ st' = "idle"
    /\ tries' = 0
    /\ rc' = 0
    /\ data' = <<>>
    /\ opfault' = FALSE
    /\ failed' = {}
    /\ found' = FALSE
    /\ outcome' = "none"
    /\ ret' = <<>>
    /\ UNCHANGED <<arg, trace, nfail, nfaulty, bus, argv, a2, report>>

InitAgree == \E d \in ScanDevs : ScanCalled(ScanCase(16, 16, (16 :> d)))

NextAgree ==
    \/ scan_pmbus
    \/ scan_read_block
    \/ then_modify
    \/ main
    \/ vrm_read_block
    \/ vrm_write_block
    \/ pxe1610_set_icc_max
    \/ mp2955a_set_icc_max
    \/ tps53679_set_icc_max

SpecAgree == InitAgree /\ [][NextAgree]_vars


\* ======================================================= trace vocabulary
Idx == 1..Len(trace)

\* A page select is the write [0x00, page].
IsPageSelect(e) == e.op = "write" /\ Len(e.bytes) = 2 /\ e.bytes[1] = 0

\* A register / payload write, or a register read: the transaction proper.
IsPayloadWrite(e) == e.op = "write" /\ ~IsPageSelect(e)
IsTransaction(e) == e.op = "read" \/ IsPayloadWrite(e)

OkRead(e, reg) == e.op = "read" /\ e.ok /\ e.bytes = <<reg>>
OkWrite(e, payload) == e.op = "write" /\ e.ok /\ e.bytes = payload

Written(payload) == \E i \in Idx : OkWrite(trace[i], payload)

\* ------------------------------------------------------ the command line
\* A command-line word is a sequence of characters.
HexVal ==
    ("0" :> 0) @@ ("1" :> 1) @@ ("2" :> 2) @@ ("3" :> 3) @@ ("4" :> 4) @@ ("5" :> 5)
      @@ ("6" :> 6) @@ ("7" :> 7) @@ ("8" :> 8) @@ ("9" :> 9)
      @@ ("a" :> 10) @@ ("b" :> 11) @@ ("c" :> 12) @@ ("d" :> 13) @@ ("e" :> 14) @@ ("f" :> 15)
      @@ ("A" :> 10) @@ ("B" :> 11) @@ ("C" :> 12) @@ ("D" :> 13) @@ ("E" :> 14) @@ ("F" :> 15)

RECURSIVE HexDigits(_)
HexDigits(s) ==
    IF s = <<>> THEN 0
    ELSE 16 * HexDigits(SubSeq(s, 1, Len(s) - 1)) + HexVal[s[Len(s)]]

\* int(s, 16) for words without blanks and underscores: an optional sign, an
\* optional 0x prefix, then at least one hexadecimal digit; <<v>> is the value,
\* <<>> stands for the ValueError.
int16(s) ==
    LET neg      == s # <<>> /\ s[1] = "-"
        signless == IF s # <<>> /\ s[1] \in {"+", "-"} THEN Tail(s) ELSE s
        body     == IF Len(signless) >= 2 /\ signless[1] = "0" /\ signless[2] \in {"x", "X"}
                      THEN SubSeq(signless, 3, Len(signless))
                      ELSE signless
    IN  IF body = <<>> \/ \E i \in DOMAIN body : body[i] \notin DOMAIN HexVal
          THEN <<>>
          ELSE <<IF neg THEN 0 - HexDigits(body) ELSE HexDigits(body)>>

\* _parse_hex7: -1 on a parse error, -1 when 'v > 0x7F or v < 0', else v
_parse_hex7(s) ==
    LET v == int16(s)
    IN  IF v = <<>> THEN -1
        ELSE IF v[1] > 127 \/ v[1] < 0 THEN -1
        ELSE v[1]

_parse_hex7_second_unchecked(s) ==
    LET v == int16(s)
    IN  IF v = <<>> THEN -1
        ELSE IF v[1] < 0 THEN -1
        ELSE v[1]
\* _parse_hex7_second: the same test for the second address
_parse_hex7_second(s) ==
    LET v == int16(s)
    IN  IF v = <<>> THEN -1
        ELSE IF v[1] > 127 \/ v[1] < 0 THEN -1
        ELSE v[1]

FamilyCommands == {"-PXE1610C", "-MP2955A", "-TPS53679", "-TPS53678"}

\* The procedure each family command runs.
CommandProcedure(cmd) ==
    CASE cmd = "-PXE1610C" -> "PXE1610C"
      [] cmd = "-MP2955A"  -> "MP2955A"
      [] OTHER             -> "TPS53679"

\* main returns without having called anything; o is what it printed.
Leave(o) ==
    /\ pc' = "exit"
    /\ outcome' = o
    /\ UNCHANGED <<mode, addr7, dev, arg, st, tries, opfault, ret, a2, calls>>

\* main up to its first call: the command word, the argument count and the
\* one or two addresses are examined, then the scanner or the procedure of the
\* first address is called.
main_parse ==
    /\ mode = "cli" /\ pc = "cli"
    /\ IF argv = <<>>
         THEN Leave("Usage")
       ELSE IF argv[1] = "-scan"
         THEN IF Len(argv) < 3 THEN Leave("Usage")
              ELSE IF _parse_hex7(argv[2]) < 0 THEN Leave("Rejected")
              ELSE IF _parse_hex7_second(argv[3]) < 0 THEN Leave("Rejected")
              ELSE /\ mode' = "scan"
                   /\ arg' = [fn |-> "scan_pmbus", start_addr |-> _parse_hex7(argv[2]),
                               end_addr |-> _parse_hex7_second(argv[3])]
                   /\ addr7' = arg'.start_addr
                   /\ dev' = DevAt(addr7')
                   /\ st' = "idle"
                   /\ tries' = 0
                   /\ opfault' = FALSE
                   /\ IF while_a(arg'.start_addr, arg'.end_addr)
                        THEN pc' = "probe" /\ UNCHANGED <<outcome, ret>>
                        ELSE pc' = "done" /\ outcome' = "Scanned" /\ ret' = <<0>>
                   /\ UNCHANGED <<a2, calls>>
       ELSE IF argv[1] \in FamilyCommands
         THEN IF Len(argv) < 2 THEN Leave("Usage")
              ELSE IF _parse_hex7(argv[2]) < 0 THEN Leave("Rejected")
              ELSE IF Len(argv) >= 3 /\ _parse_hex7_second(argv[3]) < 0 THEN Leave("Rejected")
              ELSE /\ mode' = CommandProcedure(argv[1])
                   /\ addr7' = _parse_hex7(argv[2])
                   /\ dev' = DevAt(addr7')
                   /\ a2' = IF Len(argv) >= 3 THEN <<_parse_hex7_second(argv[3])>> ELSE <<>>
                   /\ calls' = <<addr7'>>
                   /\ pc' = "main"
                   /\ UNCHANGED <<arg, st, tries, opfault, outcome, ret>>
       ELSE Leave("Argument error")
    /\ UNCHANGED <<rc, data, trace, nfail, nfaulty, failed, found, bus, argv, report>>

\* 'if a2 is not None: ..._set_icc_max(bus, a2)': the first call returned
\* (its value is dropped) and the same procedure is called for the second
\* address.
main_second ==
    /\ mode \in Procedures /\ pc = "done"
    /\ argv # <<>>
    /\ outcome # "Raised"
    /\ a2 # <<>> /\ Len(calls) = 1
    /\ report' = Append(report, <<addr7, outcome>>)
    /\ calls' = Append(calls, a2[1])
    /\ addr7' = a2[1]
    /\ dev' = DevAt(a2[1])
    /\ pc' = "main"
    /\ st' = "idle"
    /\ tries' = 0
    /\ opfault' = FALSE
    /\ failed' = {}
    /\ found' = FALSE
    /\ outcome' = "none"
    /\ ret' = <<>>
    /\ UNCHANGED <<mode, arg, rc, data, trace, nfail, nfaulty, bus, argv, a2>>

\* main ends after its last call: by 'return', or by the exception that the
\* call raised, which nothing catches.
main_return ==
    /\ mode \in Procedures \cup {"scan"} /\ pc = "done"
    /\ argv # <<>>
    /\ mode \in Procedures => (outcome = "Raised" \/ a2 = <<>> \/ Len(calls) = 2)
    /\ report' = IF mode = "scan" THEN report ELSE Append(report, <<addr7, outcome>>)
    /\ pc' = IF outcome = "Raised" THEN "traceback" ELSE "exit"
    /\ UNCHANGED <<mode, addr7, dev, arg, st, tries, rc, data, trace, nfail, nfaulty,
                   opfault, failed, found, outcome, ret, bus, argv, a2, calls>>

\* Address words: 58, 5C, 60, 0x58 are addresses; 80 is out of range, -1 is
\* negative, zz and the empty word are no numbers.
Words ==
    { <<"5", "8">>, <<"5", "C">>, <<"6", "0">>, <<"8", "0">>, <<"-", "1">>,
      <<"z", "z">>, <<>> }

BadWords == { <<"8", "0">>, <<"-", "1">>, <<"z", "z">>, <<>> }

CliArgvs ==
    { <<>>, <<"-scan">>, <<"-MP2955A">>, <<"-help">>, <<"-scan", <<"5", "8">> >>,
      <<"-PXE1610C", <<"0", "x", "5", "8">> >>,
      <<"-scan", <<"5", "C">>, <<"5", "8">> >> }
      \cup { <<"-scan", w1, w2>> : w1 \in {<<"5", "8">>, <<"8", "0">>, <<"z", "z">>},
                                    w2 \in {<<"5", "C">>, <<"8", "0">>, <<"-", "1">>} }
      \cup { <<c, w1>> : c \in FamilyCommands, w1 \in BadWords }
      \cup { <<c, w1, w2>> : c \in FamilyCommands, w1 \in Words, w2 \in BadWords }
      \cup { <<c, w1, w2>> : c \in FamilyCommands, w1 \in BadWords, w2 \in Words }
      \cup { <<"-PXE1610C", <<"5", "C">>, <<"5", "C">> >>,
             <<"-PXE1610C", <<"6", "0">>, <<"5", "C">> >>,
             <<"-PXE1610C", <<"5", "C">>, <<"6", "0">> >>,
             <<"-MP2955A", <<"6", "0">>, <<"5", "8">> >>,
             <<"-MP2955A", <<"5", "C">>, <<"5", "C">> >>,
             <<"-TPS53679", <<"5", "8">>, <<"6", "0">> >>,
             <<"-TPS53678", <<"5", "C">> >> }

\* The bus of the command-line runs: at 0x58 a device with all signatures whose
\* ICC_MAX is not yet 0xFF, at 0x5C the same with ICC_MAX at 0xFF, nothing
\* elsewhere.
CliBus ==
    (88 :> [Regs(<<1, 121>>, <<85, 37>>, <<179>>, <<0>>, <<21, 4>>)
              EXCEPT ![<<32, 115>>] = <<0, 255>>, ![<<0, 239>>] = <<0>>,
                     ![<<0, 218>>] = <<0, 255>>])
      @@ (92 :> Regs(<<1, 120>>, <<85, 37>>, <<179>>, <<0>>, <<21, 4>>))

InitCli ==
    /\ mode = "cli"
    /\ pc = "cli"
    /\ argv \in CliArgvs
    /\ bus = CliBus
    /\ addr7 = 0
    /\ dev = NoDevice
    /\ arg = WrOp("none", 0, <<>>)
    /\ st = "idle"
    /\ tries = 0
    /\ rc = 0
    /\ data = <<>>
    /\ trace = <<>>
    /\ nfail = 0
    /\ nfaulty = 0
    /\ opfault = FALSE
    /\ failed = {}
    /\ found = FALSE
    /\ outcome = "none"
    /\ ret = <<>>
    /\ a2 = <<>>
    /\ calls = <<>>
    /\ report = <<>>

NextCli ==
    \/ main_parse
    \/ main
    \/ main_second
    \/ main_return
    \/ scan_pmbus
    \/ scan_read_block
    \/ vrm_write_block
    \/ vrm_read_block
    \/ pxe1610_set_icc_max
    \/ mp2955a_set_icc_max
    \/ tps53679_set_icc_max

SpecCli == InitCli /\ [][NextCli]_vars

\* -------------------------------------- decoding the remaining attempts
\* Python's a | b on non-negative integers.
RECURSIVE BitOr(_, _)
BitOr(a, b) ==
    IF a = 0 THEN b
    ELSE IF b = 0 THEN a
    ELSE 2 * BitOr(a \div 2, b \div 2) + (IF a % 2 = 1 \/ b % 2 = 1 THEN 1 ELSE 0)

pxe_remain_unmasked(att) == BitOr(att[2] * 4, att[1] \div 64)
\* tmp = (att[1] << 2) & 0xFF; remain = (tmp | (att[0] >> 6)) & 0xFF
pxe_remain(att) ==
    LET tmp == (att[2] * 4) % 256
    IN  BitOr(tmp, att[1] \div 64) % 256

\* tmp = (att2[1] << 2) & 0xFF; remain = (tmp | (att2[0] >> 6)) & 0xFF
pxe_remain_after(att2) ==
    LET tmp == (att2[2] * 4) % 256
    IN  BitOr(tmp, att2[1] \div 64) % 256

\* tmp = (x82[1] << 2) & 0xFF; remain = (tmp | (x82[0] >> 6)) & 0xFF
scan_remain(x82) ==
    LET tmp == (x82[2] * 4) % 256
    IN  BitOr(tmp, x82[1] \div 64) % 256

\* The bytes a 2-byte read can return.
Byte == 0..255

\* A successful 2-byte read of page 0x50 reg 0x82 returned data.
InitDecode ==
    /\ mode = "decode"
    /\ data \in Byte \X Byte
    /\ pc = "call"
    /\ addr7 = 88
    /\ dev = (<<80, 130>> :> data)
    /\ bus = (addr7 :> dev)
    /\ arg = RdOp("vrm_read_block", 80, 130, 2)
    /\ st = "ret"
    /\ tries = 1
    /\ rc = 0
    /\ trace = <<>>
    /\ nfail = 0
    /\ nfaulty = 0
    /\ opfault = FALSE
    /\ failed = {}
    /\ found = TRUE
    /\ outcome = "none"
    /\ ret = <<>>
    /\ argv = <<>>
    /\ a2 = <<>>
    /\ calls = <<>>
    /\ report = <<>>

\* The three places that decode the counter, applied to the same two bytes.
decode_remain ==
    /\ mode = "decode" /\ pc = "call" /\ rc = 0
    /\ ret' = <<pxe_remain(data), pxe_remain_after(data), scan_remain(data)>>
    /\ pc' = "done"
    /\ UNCHANGED <<mode, addr7, dev, arg, st, tries, rc, data, trace, nfail, nfaulty,
                   opfault, failed, found, outcome, cli>>

NextDecode == decode_remain

SpecDecode == InitDecode /\ [][NextDecode]_vars

\* ------------------------------------------------------------------- C1
\* C1 (as claimed): PXE1610C identification succeeds iff FD=0xB3 on page 0x00,
\* then 1A=0x00 on page 0x4F, then 32=[0x15,0x04] on page 0x4F are read in that
\* order; on any deviation (mismatch or exhausted read) the procedure returns
\* Error and no register write has been issued.
C1_TripleObserved ==
    \E i, j, k \in Idx :
        /\ i < j /\ j < k
        /\ OkRead(trace[i], 253) /\ trace[i].pg = 0  /\ trace[i].resp = <<179>>
        /\ OkRead(trace[j], 26)  /\ trace[j].pg = 79 /\ trace[j].resp = <<0>>
        /\ OkRead(trace[k], 50)  /\ trace[k].pg = 79 /\ trace[k].resp = <<21, 4>>

C1_IdentificationReturnsError ==
    (mode = "PXE1610C" /\ pc = "done") =>
        /\ found <=> C1_TripleObserved
        /\ ~found => /\ outcome = "Error"
                     /\ ret = <<-1>>
                     /\ \A i \in Idx : ~IsPayloadWrite(trace[i])

\* ------------------------------------------------------------------- C2
Destructive(e) ==
    e.op = "write" /\ e.bytes \in {<<239, 255>>, <<218, 255, 0>>, <<21>>, <<17>>}

C2_SignatureRead(e) ==
    \/ /\ mode = "MP2955A" /\ OkRead(e, 191)
       /\ e.resp[1] = 85 /\ e.resp[2] = 37
    \/ /\ mode = "TPS53679" /\ OkRead(e, 173)
       /\ e.resp[1] = 1 /\ e.resp[2] \in {121, 120}

\* C2: in the MP2955A and TPS53679/78 procedures a destructive write (ICC_MAX
\* value write or store trigger) is only ever issued after a successful
\* identification read that matched the family signature; a procedure that
\* ends without such a read ends with Error.
C2_NoDestructiveWriteUnlessIdentified ==
    mode \in {"MP2955A", "TPS53679"} =>
        /\ \A j \in Idx : Destructive(trace[j]) =>
               \E i \in 1..(j - 1) : C2_SignatureRead(trace[i])
        /\ (pc = "done" /\ ~(\E i \in Idx : C2_SignatureRead(trace[i]))) =>
               (outcome = "Error" /\ ret = <<-1>>)

C2_Witness ==
    /\ mode = "MP2955A" /\ pc = "done" /\ nfail > 0
    /\ \E j \in Idx : Destructive(trace[j]) /\ trace[j].bytes = <<21>>

\* ------------------------------------------------------------------- C3
\* A successful read of ICC_MAX that returned 0xFF in the relevant byte.
C3_MaxRead(e) ==
    /\ e.op = "read" /\ e.ok /\ e.resp[1] = 255
    /\ \/ mode = "PXE1610C" /\ e.bytes = <<115>> /\ e.pg = 32
       \/ mode = "MP2955A"  /\ e.bytes = <<239>>
       \/ mode = "TPS53679" /\ e.bytes = <<218>>

\* C3 (as claimed): when ICC_MAX already reads 0xFF the procedure reports
\* Skipped and has issued no write transaction.
C3_SkippedWithoutAnyWrite ==
    (mode \in Procedures /\ pc = "done" /\ \E i \in Idx : C3_MaxRead(trace[i])) =>
        /\ outcome = "Skipped"
        /\ \A i \in Idx : trace[i].op # "write"

\* C3 (amended): when ICC_MAX already reads 0xFF the procedure issues nothing
\* after that read and reports Skipped (returns 0); it never issues an ICC_MAX
\* value write, an NVM password write or a commit trigger, and the only
\* register write issued before the read is the PXE1610C SMB password.
C3_SkippedWithoutFurtherWrite ==
    (mode \in Procedures /\ \E i \in Idx : C3_MaxRead(trace[i])) =>
        /\ \A i \in Idx : C3_MaxRead(trace[i]) => i = Len(trace)
        /\ outcome \in {"none", "Skipped"}
        /\ pc = "done" => (outcome = "Skipped" /\ ret = <<0>>)
        /\ \A i \in Idx : IsPayloadWrite(trace[i]) =>
               (mode = "PXE1610C" /\ trace[i].bytes = <<39, 124, 179>>)

C3_Witness ==
    /\ mode = "PXE1610C" /\ pc = "done" /\ outcome = "Skipped" /\ nfail > 0
    /\ \E i \in Idx : C3_MaxRead(trace[i])

\* ------------------------------------------------------------------- C4
\* C4 (as claimed): the PXE1610C procedure never reports Success after the
\* SMB password, ICC_MAX, NVM password set, upload trigger or NVM password
\* clear write has failed.
C4_NoSuccessAfterFailedWrite ==
    (mode = "PXE1610C" /\ pc = "done"
       /\ failed \cap {"smb_pw", "wr_icc", "nvm_set", "upload", "nvm_clr"} # {}) =>
        outcome = "Error"

\* ------------------------------------------------------------------- C5
\* C5 (as claimed): when identification matched and the five unlock / write /
\* trigger / clear writes all succeeded, the PXE1610C procedure reports
\* Success whatever the remaining-attempts reads did.
C5_AttemptsReadNonFatal ==
    (mode = "PXE1610C" /\ pc = "done" /\ found
       /\ Written(<<39, 124, 179>>) /\ Written(<<115, 255, 0>>)
       /\ Written(<<41, 215, 239>>) /\ Written(<<52>>) /\ Written(<<41, 0, 0>>)) =>
        outcome = "Success"

\* ------------------------------------------------------------------- C6
\* C6 (as claimed): in the MP2955A and TPS53679/78 procedures, once a stage's
\* paged operation has failed no further paged operation is started and the
\* procedure ends with Error.
C6_EveryStageFailureFatal ==
    (mode \in {"MP2955A", "TPS53679"} /\ failed # {}) =>
        /\ st \notin {"loop", "pay"}
        /\ pc = "done" => outcome = "Error"


\* ------------------------------------------------------------------- C7
\* The attempts a direct call has made: every attempt starts with the page
\* select when there is a page, and is the payload alone otherwise.
C7_Attempts ==
    IF arg.page >= 0 THEN Cardinality({i \in Idx : IsPageSelect(trace[i])})
    ELSE Len(trace)

C7_Budget == IF mode = "scan_read_block" THEN 2 ELSE 4

\* C7: a direct call of vrm_write_block / vrm_read_block makes at most 4
\* attempts and scan_read_block at most 2; it returns Failed only after
\* exactly that many attempts, none of which succeeded (with a transport that
\* always fails: exactly budget transport calls); it returns Ok at the first
\* successful payload, and no transport call follows a successful payload.
C7_RetryBudgetExact ==
    mode \in Protocols =>
        /\ C7_Attempts <= C7_Budget
        /\ \A i \in Idx : (IsTransaction(trace[i]) /\ trace[i].ok) => i = Len(trace)
        /\ pc = "done" => ret \in {<<0>>, <<-1>>}
        /\ (pc = "done" /\ ret = <<-1>>) =>
               /\ C7_Attempts = C7_Budget
               /\ \A i \in Idx : IsTransaction(trace[i]) => ~trace[i].ok
        /\ (pc = "done" /\ ret = <<0>>) =>
               /\ Len(trace) > 0
               /\ IsTransaction(trace[Len(trace)]) /\ trace[Len(trace)].ok
        /\ (pc = "done" /\ \A i \in Idx : ~trace[i].ok) =>
               (Len(trace) = C7_Budget /\ ret = <<-1>>)
        /\ (st = "ret" /\ rc = 0) =>
               (Len(trace) > 0 /\ trace[Len(trace)].ok)

C7_Witness ==
    /\ mode = "vrm_write_block" /\ arg.page >= 0
    /\ pc = "done" /\ ret = <<-1>>
    /\ Len(trace) = 8

\* ------------------------------------------------------------------- C8
\* Runs in which every paged operation is called with a real page.
C8_RealPage == mode \in Procedures \/ (mode \in Protocols /\ arg.page >= 0)

C8_BudgetOf == IF mode = "scan_read_block" THEN 2 ELSE 4

\* C8: with a real page, every payload write or register read of the trace is
\* immediately preceded by a successful page select [0x00, page] of its own
\* attempt to the same address; and once the operation has returned, every
\* payload that failed on attempt k < budget is immediately followed by the
\* page select of attempt k+1.
C8_RetryRestartsFromPageSelect ==
    C8_RealPage =>
        /\ \A i \in Idx : IsTransaction(trace[i]) =>
              /\ i > 1
              /\ IsPageSelect(trace[i - 1]) /\ trace[i - 1].ok
              /\ trace[i - 1].addr = trace[i].addr
              /\ trace[i - 1].bytes = <<0, trace[i].pg>>
              /\ trace[i - 1].att = trace[i].att
        /\ \A i \in Idx :
              (IsTransaction(trace[i]) /\ ~trace[i].ok /\ trace[i].att < C8_BudgetOf
                 /\ (st \in {"ret", "idle"} \/ i < Len(trace))) =>
                  /\ i < Len(trace)
                  /\ IsPageSelect(trace[i + 1])
                  /\ trace[i + 1].bytes = <<0, trace[i].pg>>
                  /\ trace[i + 1].addr = trace[i].addr
                  /\ trace[i + 1].att = trace[i].att + 1

C8_Witness ==
    /\ mode = "PXE1610C"
    /\ \E i \in Idx :
          /\ IsTransaction(trace[i]) /\ ~trace[i].ok /\ trace[i].pg = 63
          /\ i + 2 <= Len(trace)
          /\ IsTransaction(trace[i + 2]) /\ trace[i + 2].ok

\* ------------------------------------------------------------------- C9
\* The device answers the identification triple, ICC_MAX is not yet 0xFF and
\* no transaction of the finished run failed.
C9_HappyRun ==
    /\ mode = "PXE1610C" /\ pc = "done" /\ nfail = 0
    /\ dev[<<0, 253>>] = <<179>> /\ dev[<<79, 26>>] = <<0>>
    /\ dev[<<79, 50>>] = <<21, 4>> /\ dev[<<32, 115>>][1] # 255

\* Identification is the first six transport calls of a run without failures.
C9_AfterId == SubSeq(trace, 7, Len(trace))

C9_Pages ==
    LET sel == SelectSeq(C9_AfterId, IsPageSelect)
    IN  [i \in 1..Len(sel) |-> sel[i].bytes[2]]

C9_Writes ==
    LET w == SelectSeq(trace, IsPayloadWrite)
    IN  [i \in 1..Len(w) |-> w[i].bytes]

C9_WriteOrder ==
    C9_Writes = << <<39, 124, 179>>, <<115, 255, 0>>, <<41, 215, 239>>,
                   <<52>>, <<41, 0, 0>> >>

\* C9 (as claimed): the run reports Success, issues unlock / ICC_MAX write /
\* NVM password / trigger / clear in that order, and selects the pages
\* 0x3F, 0x20, 0x3F, 0x3F, 0x3F, 0x50 after identification.
C9_PageSequenceClaimed ==
    C9_HappyRun =>
        /\ outcome = "Success"
        /\ C9_WriteOrder
        /\ C9_Pages = <<63, 32, 63, 63, 63, 80>>

\* C9 (amended): the run reports Success, issues the writes in that order, and
\* selects the pages 0x3F, 0x20, 0x50, 0x20, 0x3F, 0x3F, 0x3F, 0x50 after
\* identification.
C9_PageSequence ==
    C9_HappyRun =>
        /\ outcome = "Success" /\ ret = <<0>>
        /\ C9_WriteOrder
        /\ C9_Pages = <<63, 32, 80, 32, 63, 63, 63, 80>>

C9_Witness == C9_HappyRun /\ Len(trace) = 23

\* ------------------------------------------------------------------ C10
\* C10 (as claimed): the MP2955A and TPS53679/78 procedures never issue a page
\* select.
C10_NoPageSelect ==
    mode \in {"MP2955A", "TPS53679"} => \A i \in Idx : ~IsPageSelect(trace[i])

\* C10 (amended): the MP2955A and TPS53679/78 procedures select page 0x00 and
\* no other page; every register read and payload write is immediately
\* preceded by a successful page select [0x00, 0x00].
C10_OnlyPageZero ==
    mode \in {"MP2955A", "TPS53679"} =>
        \A i \in Idx :
            /\ IsPageSelect(trace[i]) => trace[i].bytes = <<0, 0>>
            /\ IsTransaction(trace[i]) =>
                  /\ i > 1
                  /\ trace[i - 1].ok /\ trace[i - 1].op = "write"
                  /\ trace[i - 1].bytes = <<0, 0>>

C10_Witness ==
    /\ mode = "TPS53679" /\ pc = "done" /\ outcome = "Success"
    /\ \E i \in Idx : trace[i].bytes = <<17>> /\ trace[i].ok


\* ------------------------------------------------------------------ C11
\* C11: a direct call of vrm_write_block / vrm_read_block / scan_read_block
\* with the no-page sentinel, at any address, never issues a page select:
\* attempt k is exactly the k-th transport call, the payload write or the
\* write-then-read of the call, to the address of the call.
C11_SentinelNeverSelectsPage ==
    (mode \in Protocols /\ arg.page < 0) =>
        \A i \in Idx :
            /\ ~IsPageSelect(trace[i])
            /\ IsTransaction(trace[i])
            /\ trace[i].att = i
            /\ trace[i].bytes = arg.bytes
            /\ trace[i].addr = addr7

C11_Witness ==
    /\ mode = "vrm_write_block" /\ arg.page < 0 /\ addr7 = 127
    /\ pc = "done" /\ ret = <<0>> /\ Len(trace) = 3

\* ------------------------------------------------------------------ C12
\* A presence probe: a 1-byte read of register 0x00 outside any paged
\* operation (no page, no attempt number).
C12_IsProbe(e) ==
    e.op = "read" /\ e.bytes = <<0>> /\ e.n = 1 /\ e.pg = -1 /\ e.att = 0

C12_Probes == SelectSeq(trace, C12_IsProbe)

C12_RangeSize ==
    IF arg.end_addr >= arg.start_addr THEN arg.end_addr - arg.start_addr + 1 ELSE 0

C12_Visits ==
    mode = "scan" =>
        \* the probes so far are those of start, start+1, ... in this order
        /\ \A k \in 1..Len(C12_Probes) :
              /\ C12_Probes[k].addr = arg.start_addr + k - 1
              /\ C12_Probes[k].addr <= arg.end_addr
        \* nothing is sent to an address before its probe
        /\ \A i \in Idx :
              (\A j \in 1..(i - 1) : trace[j].addr # trace[i].addr) => C12_IsProbe(trace[i])
        \* a failed probe is the only event of its address
        /\ \A i \in Idx :
              (C12_IsProbe(trace[i]) /\ ~trace[i].ok) =>
                  \A j \in Idx : j # i => trace[j].addr # trace[i].addr
        \* at the end every address of the range was probed
        /\ pc = "done" => Len(C12_Probes) = C12_RangeSize
        \* nothing answered: zero matches, one read per address, no page select
        /\ (pc = "done" /\ \A k \in 1..Len(C12_Probes) : ~C12_Probes[k].ok) =>
              /\ report = <<>>
              /\ Len(trace) = C12_RangeSize
              /\ \A i \in Idx : C12_IsProbe(trace[i]) /\ ~IsPageSelect(trace[i])

\* C12: the scanner probes every address of [start, end] exactly once, in
\* ascending order, with one 1-byte read of register 0x00 (no page select, no
\* retry); after a failed probe nothing more is sent to that address; a range
\* where nothing answers yields no match, one read per address and no page
\* select; and the scan terminates.
C12_ScanVisitsRangeAndTerminates == []C12_Visits /\ <>(mode = "scan" => pc = "done")

\* The scan of the empty range 0x10..0x13 has ended after four probes.
C12_Witness ==
    /\ mode = "scan" /\ pc = "done" /\ ret = <<0>>
    /\ arg.start_addr = 16 /\ arg.end_addr = 19 /\ bus = <<>>
    /\ Len(trace) = 4 /\ report = <<>>

\* ------------------------------------------------------------------ C13
\* Position of a read in the fixed order: probe, ISL69127 (AD, 5 bytes),
\* TPS53679/78 (AD, 2 bytes), MP2955A (BF), PXE1610C/Primarion (FD, 1A, 32),
\* then the informational reads 82 and 73.
C13_Rank(e) ==
    CASE e.bytes = <<0>>                -> 0
      [] e.bytes = <<173>> /\ e.n = 5   -> 1
      [] e.bytes = <<173>> /\ e.n = 2   -> 2
      [] e.bytes = <<191>>              -> 3
      [] e.bytes = <<253>>              -> 4
      [] e.bytes = <<26>>               -> 5
      [] e.bytes = <<50>>               -> 6
      [] e.bytes = <<130>>              -> 7
      [] e.bytes = <<115>>              -> 8
      [] OTHER                          -> 9

\* The read that completes a family's signature.
C13_Match(e) ==
    IF e.op # "read" \/ ~e.ok THEN "none"
    ELSE IF C13_Rank(e) = 1 /\ e.resp[2] = 0 /\ e.resp[3] = 35 /\ e.resp[4] = 210
            /\ e.resp[5] = 73 THEN "ISL69127"
    ELSE IF C13_Rank(e) = 2 /\ e.resp = <<1, 121>> THEN "TPS53679"
    ELSE IF C13_Rank(e) = 2 /\ e.resp = <<1, 120>> THEN "TPS53678"
    ELSE IF C13_Rank(e) = 3 /\ e.resp = <<85, 37>> THEN "MP2955A"
    ELSE IF C13_Rank(e) = 5 /\ e.resp = <<0>> THEN "Primarion"
    ELSE IF C13_Rank(e) = 6 /\ e.resp = <<21, 4>> THEN "PXE1610C"
    ELSE "none"

\* PXE1610C is the confirmed member of the Primarion family.
C13_Family(f) == IF f \in {"Primarion", "PXE1610C"} THEN "PXE1610C/Primarion" ELSE f

\* C13: at each present address the signature reads are issued in the order
\* ISL69127, TPS53679/78, MP2955A, PXE1610C/Primarion; after the read that
\* completes the signature of ISL69127, TPS5367x or MP2955A nothing more is
\* sent to that address; every reported family rests on its matching read;
\* and one address is never reported under two families.
C13_PriorityOrderFirstMatchOnly ==
    mode = "scan" =>
        /\ \A i, j \in Idx :
              (i < j /\ trace[i].op = "read" /\ trace[j].op = "read"
                 /\ trace[i].addr = trace[j].addr)
                => C13_Rank(trace[i]) <= C13_Rank(trace[j])
        /\ \A i \in Idx :
              C13_Match(trace[i]) \in {"ISL69127", "TPS53679", "TPS53678", "MP2955A"} =>
                  \A j \in Idx : j > i => trace[j].addr # trace[i].addr
        /\ \A m \in DOMAIN report :
              \E i \in Idx : trace[i].addr = report[m][1]
                              /\ C13_Match(trace[i]) = report[m][2]
        /\ \A i \in Idx :
              (C13_Match(trace[i]) # "none" /\ (pc = "done" \/ i < Len(trace))) =>
                  \E m \in DOMAIN report : report[m] = <<trace[i].addr, C13_Match(trace[i])>>
        /\ \A m, n \in DOMAIN report :
              report[m][1] = report[n][1] =>
                  C13_Family(report[m][2]) = C13_Family(report[n][2])

\* A device carrying the TPS53678, MP2955A and PXE1610C signatures at once was
\* reported as TPS53678 only, and the scan went on to the next address.
C13_Witness ==
    /\ mode = "scan" /\ pc = "done"
    /\ report = << <<16, "TPS53678">> >>
    /\ bus[16][<<0, 191>>] = <<85, 37>> /\ bus[16][<<0, 253>>] = <<179>>
    /\ \E i \in Idx : trace[i].addr = 17

\* ------------------------------------------------------------------ C14
\* C14: a scan never writes a register or a payload: its only writes are page
\* selects, so no password, ICC_MAX or trigger write reaches any device; and
\* every classification read is a scan_read_block call, of at most 2 attempts.
C14_ScanNeverWrites ==
    mode = "scan" =>
        /\ \A i \in Idx :
              /\ ~IsPayloadWrite(trace[i])
              /\ trace[i].op = "write" => trace[i].bytes = <<0, trace[i].pg>>
              /\ trace[i].att <= 2
        /\ (pc # "probe" /\ pc # "done") => CurOp.fn = "scan_read_block"
        /\ tries <= 2

\* A PXE1610C was classified through all its reads, both attempts of one of them
\* used, and the scan ended.
C14_Witness ==
    /\ mode = "scan" /\ pc = "done"
    /\ \E m \in DOMAIN report : report[m][2] = "PXE1610C"
    /\ \E i \in Idx : trace[i].op = "read" /\ trace[i].bytes = <<115>> /\ trace[i].ok
    /\ \E i \in Idx : trace[i].att = 2 /\ ~trace[i].ok

\* ------------------------------------------------------------------ C17
\* The commit trigger of the running procedure.
C17_Trigger ==
    CASE mode = "PXE1610C" -> <<52>>        \* 0x34
      [] mode = "MP2955A"  -> <<21>>        \* 0x15
      [] mode = "TPS53679" -> <<17>>        \* 0x11
      [] OTHER             -> <<>>

C17_IsTrigger(e) == e.op = "write" /\ e.bytes = C17_Trigger

\* C17: in every modification procedure nothing is sent between the commit
\* trigger (0x34, 0x15, 0x11) and the end of the settle delay: a successful
\* trigger write is directly followed by the delay, a failed one by the next
\* attempt of the same trigger or, after the last attempt, by the delay; and the
\* procedure does not go on or end before the delay has elapsed.
C17_SettleDelayFollowsTrigger ==
    mode \in Procedures =>
        \A i \in Idx :
            C17_IsTrigger(trace[i]) =>
                IF i = Len(trace)
                  THEN pc \in {"upload", "store", "sleep"}
                  ELSE \/ trace[i + 1].op = "sleep"
                       \/ /\ ~trace[i].ok
                          /\ trace[i].att < RETRY_RW
                          /\ IsPageSelect(trace[i + 1])
                          /\ trace[i + 1].pg = trace[i].pg
                          /\ trace[i + 1].att = trace[i].att + 1

\* The upload trigger failed once, succeeded on the next attempt, the delay
\* followed it and the password clear came after the delay.
C17_Witness ==
    /\ mode = "PXE1610C" /\ pc = "done"
    /\ \E i \in Idx :
          /\ i + 2 <= Len(trace)
          /\ OkWrite(trace[i], <<52>>) /\ trace[i].att = 2
          /\ trace[i + 1].op = "sleep"
          /\ trace[i + 2].bytes = <<0, 63>>

\* ------------------------------------------------------------------ C18
\* C18: when the PXE1610C procedure has ended after a successful NVM-password
\* set [0x29,0xD7,0xEF], it has ended by a return, and after the set and the
\* settle delay the password clear was attempted: its page select (page 0x3F)
\* directly follows the delay, and either [0x29,0x00,0x00] was written or its 4
\* attempts failed.
C18_ClearAttemptedAfterSet ==
    (mode = "PXE1610C" /\ pc = "done" /\ Written(<<41, 215, 239>>)) =>
        /\ outcome # "Raised"
        /\ \E i \in Idx :
              /\ OkWrite(trace[i], <<41, 215, 239>>)
              /\ \E j \in (i + 1)..(Len(trace) - 1) :
                    /\ trace[j].op = "sleep"
                    /\ trace[j + 1].op = "write" /\ trace[j + 1].bytes = <<0, 63>>
                    /\ trace[j + 1].att = 1
                    /\ \E c \in (j + 1)..Len(trace) :
                          \/ OkWrite(trace[c], <<41, 0, 0>>)
                          \/ /\ trace[c].op = "write" /\ ~trace[c].ok
                             /\ trace[c].pg = 63 /\ trace[c].att = RETRY_RW

\* The upload trigger failed on all its attempts and the clear was written.
C18_Witness ==
    /\ mode = "PXE1610C" /\ pc = "done"
    /\ Written(<<41, 215, 239>>)
    /\ "upload" \in failed
    /\ Written(<<41, 0, 0>>)

\* ------------------------------------------------------------------ C20
\* Bit k of x, and the bitwise OR of two numbers below 2^10 bit by bit.
C20_Bit(x, k) == (x \div (2 ^ k)) % 2

RECURSIVE C20_OrBits(_, _, _)
C20_OrBits(a, b, k) ==
    IF k < 0 THEN 0
    ELSE (IF C20_Bit(a, k) + C20_Bit(b, k) > 0 THEN 2 ^ k ELSE 0) + C20_OrBits(a, b, k - 1)

\* ((byte1 << 2) | (byte0 >> 6)) & 0xFF
C20_Formula(byte0, byte1) == C20_OrBits(byte1 * 4, byte0 \div 64, 9) % 256

\* C20: for all byte0, byte1 in 0..255 the remaining-attempts value computed
\* before the modification, after it and in the scanner is
\* ((byte1 << 2) | (byte0 >> 6)) & 0xFF, and it lies in 0..255.
C20_RemainDecoded ==
    (mode = "decode" /\ pc = "done") =>
        \A k \in 1..3 :
            /\ ret[k] = C20_Formula(data[1], data[2])
            /\ ret[k] \in 0..255

\* byte0 = 0xC0, byte1 = 0x41: the shift overflows 8 bits and both operands of
\* the OR contribute; the value is 0x07.
C20_Witness ==
    /\ mode = "decode" /\ pc = "done"
    /\ data = <<192, 65>>
    /\ ret = <<7, 7, 7>>

\* ------------------------------------------------------------------ C19
\* C19: with fixed register contents and a transport that never failed, when
\* the scanner reported PXE1610C, MP2955A, TPS53679 or TPS53678 at an address
\* and that family's procedure was then run on the address, the procedure
\* identified the device: it did not end with 'not found' and did not raise.
C19_ScannerAndProcedureAgree ==
    (mode \in Procedures /\ calls # <<>> /\ nfail = 0) =>
        /\ calls[1] = report[Len(report)]
        /\ mode = FamilyProcedure(calls[1][2])
        /\ addr7 = calls[1][1]
        /\ pc = "done" => (found /\ outcome \in {"Skipped", "Success"})
        /\ pc \notin {"main", "id_fd", "id_1a", "id_32", "id_bf", "id_ad", "done"} => found

\* The scanner reported TPS53678 and tps53679_set_icc_max identified the device.
C19_Witness ==
    /\ mode = "TPS53679" /\ pc = "done" /\ nfail = 0
    /\ calls = << <<16, "TPS53678">> >>
    /\ found

\* ------------------------------------------------------------------ C15
\* The address words that are no 7-bit address: 0x80 is above 0x7F, -1 is
\* below 0x00, zz and the empty word are not hexadecimal.
C15_Invalid(w) == w \in { <<"8", "0">>, <<"-", "1">>, <<"z", "z">>, <<>> }

C15_InvalidAddressGiven ==
    /\ argv # <<>>
    /\ argv[1] \in {"-scan", "-PXE1610C", "-MP2955A", "-TPS53679", "-TPS53678"}
    /\ \/ Len(argv) >= 2 /\ C15_Invalid(argv[2])
       \/ Len(argv) >= 3 /\ C15_Invalid(argv[3])

\* C15: a scan or family command whose first or second address is out of
\* [0x00,0x7F] or not hexadecimal ends without any transport transaction and
\* without calling the scanner or a procedure, also when its first address is
\* valid and only the second is not.
C15_InvalidAddressRejectedBeforeBus ==
    C15_InvalidAddressGiven =>
        /\ trace = <<>>
        /\ calls = <<>>
        /\ mode = "cli"
        /\ pc \in {"cli", "exit"}
        /\ pc = "exit" => outcome \in {"Rejected", "Usage"}

\* '-PXE1610C 5C 80' has ended: the device at 0x5C was not touched.
C15_Witness ==
    /\ argv = <<"-PXE1610C", <<"5", "C">>, <<"8", "0">> >>
    /\ pc = "exit" /\ outcome = "Rejected"
    /\ trace = <<>>
    /\ 92 \in DOMAIN bus

\* ------------------------------------------------------------------ C16
\* C16 (as claimed): a family command with two addresses has, when it ends,
\* run its procedure on the first and then on the second address, whatever the
\* first returned, and it ends by a clean exit.
C16_SecondAlwaysRunCleanExit ==
    (argv # <<>> /\ a2 # <<>> /\ pc \in {"exit", "traceback"}) =>
        /\ Len(calls) = 2
        /\ calls[2] = a2[1]
        /\ pc = "exit"

====
